---- MODULE Spec2Model ----
(***************************************************************************)
(* Model of src/quality_checker.py: the four analyzers of QualityChecker,  *)
(* their aggregation into a QualityReport, and the batch driver main().    *)
(*                                                                         *)
(* A document is a Python str: here a sequence of Unicode code points.     *)
(* Substring tests and the regular expressions of the source are computed  *)
(* on that sequence, character by character.                               *)
(***************************************************************************)
EXTENDS Integers, Sequences, FiniteSets, TLC

(***************************************************************************)
(* Text primitives                                                         *)
(***************************************************************************)

Max(a, b) == IF a >= b THEN a ELSE b

Min(a, b) == IF a <= b THEN a ELSE b

Abs(a) == IF a >= 0 THEN a ELSE 0 - a

\* The least j in lo..hi with P(j), or hi+1 when there is none.
FirstIdx(lo, hi, P(_)) ==
    CHOOSE j \in lo..(Max(hi, lo - 1) + 1) :
        /\ (j = Max(hi, lo - 1) + 1 \/ P(j))
        /\ \A k \in lo..(j - 1) : ~P(k)

\* The greatest element of a non-empty finite set of integers.
SetMax(S) == CHOOSE q \in S : \A r \in S : r <= q

\* sub occurs in s at index i (1-based).
OccursAt(sub, s, i) ==
    /\ i >= 1
    /\ i + Len(sub) - 1 <= Len(s)
    /\ \A j \in 1..Len(sub) : s[i + j - 1] = sub[j]

\* Python: sub in s (the empty string is in every string)
Contains(sub, s) ==
    \/ sub = <<>>
    \/ \E i \in 1..(Len(s) - Len(sub) + 1) : s[i] = sub[1] /\ OccursAt(sub, s, i)

\* Python: s.count(c) for a one-character c
CountChar(c, s) == Cardinality({i \in 1..Len(s) : s[i] = c})

\* re: \s on str (Unicode whitespace)
IsSpace(c) ==
    c \in ({9, 10, 11, 12, 13, 28, 29, 30, 31, 32, 133, 160, 5760}
           \cup (8192..8202) \cup {8232, 8233, 8239, 8287, 12288})

\* re: [一-龥]
IsCJK(c) == c >= 19968 /\ c <= 40869

\* re: [一二三四五六七八九十]
IsNumeral(c) ==
    c \in {19968, 20108, 19977, 22235, 20116, 20845, 19971, 20843, 20061, 21313}

\* Index of the first ')' at or after i, or Len(s)+1.
NextClose(s, i) == FirstIdx(i, Len(s), LAMBDA j : s[j] = 41)

(***************************************************************************)
(* The literal strings of the source, as code points                       *)
(***************************************************************************)

S_defun == <<100, 101, 102, 117, 110>>                      \* 'defun'
S_goal == <<30446, 26631>>                                  \* '目标'
S_models == <<24605, 32500, 27169, 22411>>                  \* '思维模型'
S_persona == <<20154, 26684, 29305, 36136>>                 \* '人格特质'
S_beliefs == <<26680, 24515, 20449, 24565>>                 \* '核心信念'
S_arsenal == <<35821, 35328, 27494, 22120, 24211>>          \* '语言武器库'
S_process == <<25191, 34892, 27969, 31243>>                 \* '执行流程'
S_criteria == <<36136, 37327, 26816, 39564, 26631, 20934>>  \* '质量检验标准'
S_taboo == <<31105, 24524, 28165, 21333>>                   \* '禁忌清单'
S_dots == <<46, 46, 46>>                                    \* '...'
S_pending == <<24453, 34917, 20805>>                        \* '待补充'
S_todo == <<84, 79, 68, 79>>                                \* 'TODO'
S_fa == <<27861>>                                           \* '法'
S_siwei == <<24605, 32500>>                                 \* '思维'
S_moxing == <<27169, 22411>>                                \* '模型'
S_shili == <<31034, 20363>>                                 \* '示例'
S_liru == <<20363, 22914>>                                  \* '例如'
S_anli == <<26696, 20363>>                                  \* '案例'
S_guide == <<20351, 29992, 25351, 21335>>                   \* '使用指南'
S_start == <<115, 116, 97, 114, 116>>                       \* 'start'

(***************************************************************************)
(* QualityChecker.__init__: the rubric lists of one checker instance       *)
(***************************************************************************)

NewChecker ==
    [required_sections |-> <<S_defun, S_goal, S_models>>,
     recommended_sections |->
        <<S_persona, S_beliefs, S_arsenal, S_process, S_criteria, S_taboo>>]

\* An issue string: its fixed text (kind) and the values formatted into it.
Issue(kind, section, a, b) ==
    [kind |-> kind, section |-> section, a |-> a, b |-> b, detail |-> ""]

(***************************************************************************)
(* _check_structure                                                        *)
(***************************************************************************)

\* a variant of _check_structure that returns the score unclamped
check_structure_unclamped(self, content) ==
    LET missing == SelectSeq(self.required_sections,
                             LAMBDA section : ~Contains(section, content))
        missing_recommended ==
            Len(SelectSeq(self.recommended_sections,
                          LAMBDA section : ~Contains(section, content)))
    IN  <<100 - 30 * Len(missing) - missing_recommended * 5, <<>>>>

\* a variant of _check_structure that takes a section as present only
\* where its name follows an opening parenthesis
check_structure_headed(self, content) ==
    LET missing == SelectSeq(self.required_sections,
                             LAMBDA section : ~Contains(<<40>> \o section, content))
        issues1 == [k \in 1..Len(missing) |->
                        Issue("missing_required", missing[k], 0, 0)]
        missing_recommended ==
            Len(SelectSeq(self.recommended_sections,
                          LAMBDA section : ~Contains(<<40>> \o section, content)))
        score == 100 - 30 * Len(missing) - missing_recommended * 5
        issues == IF missing_recommended > 0
                  THEN Append(issues1,
                              Issue("missing_recommended", <<>>, missing_recommended, 0))
                  ELSE issues1
    IN  <<Max(0, score), issues>>

check_structure(self, content) ==
    LET missing == SelectSeq(self.required_sections,
                             LAMBDA section : ~Contains(section, content))
        issues1 == [k \in 1..Len(missing) |->
                        Issue("missing_required", missing[k], 0, 0)]
        missing_recommended ==
            Len(SelectSeq(self.recommended_sections,
                          LAMBDA section : ~Contains(section, content)))
        score == 100 - 30 * Len(missing) - missing_recommended * 5
        issues == IF missing_recommended > 0
                  THEN Append(issues1,
                              Issue("missing_recommended", <<>>, missing_recommended, 0))
                  ELSE issues1
    IN  <<Max(0, score), issues>>

(***************************************************************************)
(* _check_syntax                                                           *)
(***************************************************************************)

\* re.search(r'\(defun\s+\S+\s+\(\)', content)
\* \s and \S are disjoint and '(' is not whitespace, so each of the three
\* runs is the maximal one.
defun_search(content) ==
    \E i \in 1..Len(content) :
        /\ OccursAt(<<40>> \o S_defun, content, i)
        /\ LET n == Len(content)
               a == i + 6
               b == FirstIdx(a, n, LAMBDA j : ~IsSpace(content[j]))
               c == FirstIdx(b, n, LAMBDA j : IsSpace(content[j]))
               d == FirstIdx(c, n, LAMBDA j : ~IsSpace(content[j]))
           IN  b > a /\ c > b /\ d > c /\ OccursAt(<<40, 41>>, content, d)

\* re.search(r';.*[一-龥]', content): '.' stops at a newline
comment_search(content) ==
    \E i \in 1..Len(content) :
        /\ content[i] = 59
        /\ LET e == FirstIdx(i + 1, Len(content), LAMBDA j : content[j] = 10)
           IN  \E j \in (i + 1)..(e - 1) : IsCJK(content[j])

\* a variant of the delimiter penalty without its cap
paren_penalty_uncapped(open_count, close_count) ==
    IF open_count # close_count THEN Abs(open_count - close_count) * 5 ELSE 0

\* the points taken for unpaired delimiters
paren_penalty(open_count, close_count) ==
    IF open_count # close_count
    THEN Min(50, Abs(open_count - close_count) * 5)
    ELSE 0

check_syntax(content) ==
    LET open_count == CountChar(40, content)
        close_count == CountChar(41, content)
        p1 == paren_penalty(open_count, close_count)
        i1 == IF open_count # close_count
              THEN <<Issue("paren_mismatch", <<>>, open_count, close_count)>>
              ELSE <<>>
        nodefun == ~defun_search(content)
        p2 == IF nodefun THEN 20 ELSE 0
        i2 == IF nodefun THEN <<Issue("defun_format", <<>>, 0, 0)>> ELSE <<>>
        nocomment == ~comment_search(content)
        p3 == IF nocomment THEN 10 ELSE 0
        i3 == IF nocomment THEN <<Issue("no_chinese_comment", <<>>, 0, 0)>> ELSE <<>>
    IN  <<Max(0, 100 - p1 - p2 - p3), i1 \o i2 \o i3>>

(***************************************************************************)
(* _check_content_quality                                                  *)
(***************************************************************************)

\* One alternative '\([^)]+<suffix>' tried at an opening parenthesis at i,
\* where e is the index of the next ')' (or the end): [^)]+ is greedy, so
\* the match ends at the last occurrence of the suffix that starts after at
\* least one character and lies before e.
\* The index of the match's last character, or 0 when it fails.
alt_end(content, i, e, suffix) ==
    LET starts == {q \in (i + 2)..(e - Len(suffix)) : OccursAt(suffix, content, q)}
    IN  IF starts = {} THEN 0 ELSE SetMax(starts) + Len(suffix) - 1

\* r'\([^)]+法|\([^)]+思维|\([^)]+模型' tried at index i: the first
\* alternative that matches wins.
model_match_end(content, i) ==
    IF content[i] # 40 THEN 0
    ELSE LET e == NextClose(content, i + 1)
             m1 == alt_end(content, i, e, S_fa)
             m2 == alt_end(content, i, e, S_siwei)
         IN  IF m1 > 0 THEN m1
             ELSE IF m2 > 0 THEN m2
             ELSE alt_end(content, i, e, S_moxing)

\* len(re.findall(...)): leftmost non-overlapping matches, scanning from p.
\* Only an index holding '(' can start a match.
RECURSIVE count_models(_, _)
count_models(content, p) ==
    LET i == FirstIdx(p, Len(content), LAMBDA j : content[j] = 40)
        m == model_match_end(content, i)
    IN  IF i > Len(content) THEN 0
        ELSE IF m > 0 THEN 1 + count_models(content, m + 1)
        ELSE count_models(content, i + 1)

\* len(re.findall(r'第[一二三四五六七八九十]+步', content)): a match holds
\* no second '第', so matches never overlap.
count_steps(content) ==
    Cardinality({i \in 1..Len(content) :
        /\ content[i] = 31532
        /\ LET r == FirstIdx(i + 1, Len(content), LAMBDA j : ~IsNumeral(content[j]))
           IN  r > i + 1 /\ r <= Len(content) /\ content[r] = 27493})

\* a variant of _check_content_quality in which the two length bands are
\* tested one after the other ('if' twice), so that both apply below 500
check_content_quality_both_bands(content) ==
    LET p1 == (IF Len(content) < 500 THEN 40 ELSE 0)
              + (IF Len(content) < 1000 THEN 20 ELSE 0)
        p2 == IF \/ Contains(S_dots, content)
                 \/ Contains(S_pending, content)
                 \/ Contains(S_todo, content) THEN 15 ELSE 0
        p3 == IF count_models(content, 1) < 2 THEN 20 ELSE 0
        p4 == IF count_steps(content) < 3 THEN 15 ELSE 0
        p5 == IF /\ ~Contains(S_shili, content)
                 /\ ~Contains(S_liru, content)
                 /\ ~Contains(S_anli, content) THEN 10 ELSE 0
    IN  <<Max(0, 100 - p1 - p2 - p3 - p4 - p5), <<>>>>

check_content_quality(content) ==
    LET short1 == Len(content) < 500
        short2 == ~short1 /\ Len(content) < 1000
        p1 == IF short1 THEN 40 ELSE IF short2 THEN 20 ELSE 0
        i1 == IF short1 THEN <<Issue("too_short", <<>>, 0, 0)>>
              ELSE IF short2 THEN <<Issue("short", <<>>, 0, 0)>> ELSE <<>>
        placeholder == \/ Contains(S_dots, content)
                       \/ Contains(S_pending, content)
                       \/ Contains(S_todo, content)
        p2 == IF placeholder THEN 15 ELSE 0
        i2 == IF placeholder THEN <<Issue("placeholder", <<>>, 0, 0)>> ELSE <<>>
        fewmodels == count_models(content, 1) < 2
        p3 == IF fewmodels THEN 20 ELSE 0
        i3 == IF fewmodels THEN <<Issue("few_models", <<>>, 0, 0)>> ELSE <<>>
        fewsteps == count_steps(content) < 3
        p4 == IF fewsteps THEN 15 ELSE 0
        i4 == IF fewsteps THEN <<Issue("few_steps", <<>>, 0, 0)>> ELSE <<>>
        noexample == /\ ~Contains(S_shili, content)
                     /\ ~Contains(S_liru, content)
                     /\ ~Contains(S_anli, content)
        p5 == IF noexample THEN 10 ELSE 0
        i5 == IF noexample THEN <<Issue("no_example", <<>>, 0, 0)>> ELSE <<>>
    IN  <<Max(0, 100 - p1 - p2 - p3 - p4 - p5), i1 \o i2 \o i3 \o i4 \o i5>>

(***************************************************************************)
(* _check_completeness                                                     *)
(***************************************************************************)

\* sections_to_check, in the dict's (insertion) order
sections_to_check == <<<<S_goal, 20>>, <<S_beliefs, 30>>, <<S_models, 50>>>>

\* re.findall(f'{section}[^)]*\\)', content): the first match, or <<>> when
\* the list of matches is empty.  A match starts at an occurrence of the
\* section name that has a ')' somewhere after it and ends at the first
\* such ')'.
first_section_match(section, content) ==
    LET n == Len(content)
        i == FirstIdx(1, n, LAMBDA j : /\ OccursAt(section, content, j)
                                       /\ NextClose(content, j + Len(section)) <= n)
    IN  IF i > n THEN <<>>
        ELSE SubSeq(content, i, NextClose(content, i + Len(section)))

\* a variant of the loop body that measures the text after the section name
section_too_simple_after_name(item, content) ==
    /\ Contains(item[1], content)
    /\ first_section_match(item[1], content) # <<>>
    /\ Len(first_section_match(item[1], content)) - Len(item[1]) < item[2]

\* a variant of the loop body whose length test is 'at most'
section_too_simple_inclusive(item, content) ==
    /\ Contains(item[1], content)
    /\ first_section_match(item[1], content) # <<>>
    /\ Len(first_section_match(item[1], content)) <= item[2]

\* the body of the for loop for one (section, expected_min_length) item
section_too_simple(item, content) ==
    /\ Contains(item[1], content)
    /\ first_section_match(item[1], content) # <<>>
    /\ Len(first_section_match(item[1], content)) < item[2]

check_completeness(content) ==
    LET simple == SelectSeq(sections_to_check,
                            LAMBDA item : section_too_simple(item, content))
        i1 == [k \in 1..Len(simple) |-> Issue("too_simple", simple[k][1], 0, 0)]
        noguide == ~Contains(S_guide, content) /\ ~Contains(S_start, content)
        p2 == IF noguide THEN 10 ELSE 0
        i2 == IF noguide THEN <<Issue("no_guide", <<>>, 0, 0)>> ELSE <<>>
    IN  <<Max(0, 100 - 15 * Len(simple) - p2), i1 \o i2>>

(***************************************************************************)
(* _calculate_grade, _generate_suggestions                                 *)
(***************************************************************************)

\* a variant of _calculate_grade whose first threshold is exclusive
calculate_grade_exclusive(score) ==
    IF score > 90 THEN "A"
    ELSE IF score >= 80 THEN "B"
    ELSE IF score >= 70 THEN "C"
    ELSE IF score >= 60 THEN "D"
    ELSE "F"

calculate_grade(score) ==
    IF score >= 90 THEN "A"
    ELSE IF score >= 80 THEN "B"
    ELSE IF score >= 70 THEN "C"
    ELSE IF score >= 60 THEN "D"
    ELSE "F"

\* a variant of _generate_suggestions in which the top band ends the list
\* (the tests of the sub-scores sit in the 'else' of total_score >= 90)
generate_suggestions_top_band_only(total_score, structure_score, syntax_score, content_score, completeness_score) ==
    IF total_score >= 90 THEN <<"excellent">>
    ELSE (IF total_score >= 80 THEN <<"good">> ELSE <<"needs_improvement">>)
         \o (IF structure_score < 80 THEN <<"add_structure">> ELSE <<>>)
         \o (IF syntax_score < 80 THEN <<"fix_syntax">> ELSE <<>>)
         \o (IF content_score < 80 THEN <<"enrich_content", "add_examples">> ELSE <<>>)
         \o (IF completeness_score < 80 THEN <<"expand_sections">> ELSE <<>>)
         \o (IF total_score < 70 THEN <<"rerun_extraction">> ELSE <<>>)

generate_suggestions(total_score, structure_score, syntax_score, content_score, completeness_score) ==
    (IF total_score >= 90 THEN <<"excellent">>
     ELSE IF total_score >= 80 THEN <<"good">>
     ELSE <<"needs_improvement">>)
    \o (IF structure_score < 80 THEN <<"add_structure">> ELSE <<>>)
    \o (IF syntax_score < 80 THEN <<"fix_syntax">> ELSE <<>>)
    \o (IF content_score < 80 THEN <<"enrich_content", "add_examples">> ELSE <<>>)
    \o (IF completeness_score < 80 THEN <<"expand_sections">> ELSE <<>>)
    \o (IF total_score < 70 THEN <<"rerun_extraction">> ELSE <<>>)

(***************************************************************************)
(* check_file and _read_file                                               *)
(***************************************************************************)

\* A path of the file system: absent, present but not readable as UTF-8
\* text (open or read raises), or present with its text.
NoFile == [exists |-> FALSE, readable |-> FALSE, data |-> <<>>]
BadFile == [exists |-> TRUE, readable |-> FALSE, data |-> <<>>]
TextFile(text) == [exists |-> TRUE, readable |-> TRUE, data |-> text]

\* a variant of _read_file without the existence test, reading a missing
\* file as empty
read_file_no_exists_test(file) ==
    IF file.exists /\ ~file.readable
    THEN [raised |-> "OSError", content |-> <<>>]
    ELSE [raised |-> "", content |-> file.data]

\* _read_file: the text, or the exception raised
read_file(file) ==
    IF ~file.exists THEN [raised |-> "FileNotFoundError", content |-> <<>>]
    ELSE IF ~file.readable THEN [raised |-> "OSError", content |-> <<>>]
    ELSE [raised |-> "", content |-> file.data]

\* a variant of the aggregation that rounds to the nearest integer
total_score_rounded(structure_score, syntax_score, content_score, completeness_score) ==
    (25 * structure_score + 25 * syntax_score
     + 30 * content_score + 20 * completeness_score + 50) \div 100

\* int(structure*0.25 + syntax*0.25 + content*0.30 + completeness*0.20).
\* The sub-scores are multiples of 5, for which each double product and the
\* sum are exact (k*1.25, k*1.5, k*1.0); so the sum is the rational
\* numerator/100 below and int() truncates it toward zero.
total_score_of(structure_score, syntax_score, content_score, completeness_score) ==
    LET hundredths == 25 * structure_score + 25 * syntax_score
                      + 30 * content_score + 20 * completeness_score
    IN  IF hundredths >= 0 THEN hundredths \div 100
        ELSE 0 - ((0 - hundredths) \div 100)

Metric(name, value, unit) == [name |-> name, value |-> value, unit |-> unit]

\* the body of the try block, once the text is read
evaluate(self, content) ==
    LET st == check_structure(self, content)
        sy == check_syntax(content)
        co == check_content_quality(content)
        cm == check_completeness(content)
        total_score == total_score_of(st[1], sy[1], co[1], cm[1])
    IN  [score |-> total_score,
         grade |-> calculate_grade(total_score),
         metrics |-> <<Metric("structure", st[1], "/100"),
                       Metric("syntax", sy[1], "/100"),
                       Metric("content", co[1], "/100"),
                       Metric("completeness", cm[1], "/100"),
                       Metric("size", Len(content), "chars"),
                       Metric("lines", CountChar(10, content) + 1, "")>>,
         issues |-> st[2] \o sy[2] \o co[2] \o cm[2],
         suggestions |-> generate_suggestions(total_score, st[1], sy[1], co[1], cm[1])]

\* the except branch
failure_report(raised) ==
    [score |-> 0,
     grade |-> "F",
     metrics |-> <<>>,
     issues |-> <<[Issue("read_failed", <<>>, 0, 0) EXCEPT !.detail = raised]>>,
     suggestions |-> <<"check_path", "check_format">>]

\* a variant of check_file without the try/except
check_file_no_except(self, file) ==
    LET r == read_file(file)
    IN  [raised |-> r.raised,
         report |-> IF r.raised # "" THEN failure_report(r.raised)
                    ELSE evaluate(self, r.content),
         self |-> self]

\* a variant of check_file that consumes the list of recommended sections
check_file_consuming(self, file) ==
    LET r == read_file(file)
    IN  [raised |-> "",
         report |-> IF r.raised # "" THEN failure_report(r.raised)
                    ELSE evaluate(self, r.content),
         self |-> [self EXCEPT !.recommended_sections =
                      IF @ = <<>> THEN @ ELSE Tail(@)]]

\* The outcome of a call of check_file: the exception that leaves it ("" when
\* it returns), the report returned, and the instance afterwards (no
\* statement of check_file or of the analyzers assigns to self).
check_file(self, file) ==
    LET r == read_file(file)
    IN  [raised |-> "",
         report |-> IF r.raised # "" THEN failure_report(r.raised)
                    ELSE evaluate(self, r.content),
         self |-> self]

(***************************************************************************)
(* Documents                                                               *)
(***************************************************************************)

MaxVary == 2
MaxLen == 3

Fill(n) == [k \in 1..n |-> 120]     \* 'x' * n
LP == <<40>>                          \* '('
RP == <<41>>                          \* ')'
SP == <<32>>                          \* ' '

\* A document is the concatenation of one alternative per slot.
Slots ==
    <<
      \* 1: '' | ';x\n' | '; 汉\n'
      << <<>>,
         <<59, 120, 10>>,
         <<59, 32, 27721, 10>> >>,
      \* 2: '' | 'defun ' | '(defun x (a))\n' | '(defun x ())\n'
      << <<>>,
         S_defun \o SP,
         LP \o S_defun \o <<32, 120, 32, 40, 97, 41, 41, 10>>,
         LP \o S_defun \o <<32, 120, 32, 40, 41, 41, 10>> >>,
      \* 3: '' | '(目标 ' 15 x ')' | '(目标 ' 16 x ')'
      << <<>>,
         LP \o S_goal \o SP \o Fill(15) \o RP,
         LP \o S_goal \o SP \o Fill(16) \o RP >>,
      \* 4: '' | '(思维模型 x)' | '(思维模型 (a法))' | '(思维模型 ' 44 x ')'
      << <<>>,
         LP \o S_models \o <<32, 120, 41>>,
         LP \o S_models \o <<32, 40, 97>> \o S_fa \o <<41, 41>>,
         LP \o S_models \o SP \o Fill(44) \o RP >>,
      \* 5: '' | '(a法)' | '(a法)(b思维)'
      << <<>>,
         <<40, 97>> \o S_fa \o RP,
         <<40, 97>> \o S_fa \o <<41, 40, 98>> \o S_siwei \o RP >>,
      \* 6: '' | five recommended names | all six, '(核心信念 x)' |
      \*    all six, '(核心信念 ' 24 x ')'
      << <<>>,
         S_persona \o SP \o S_arsenal \o SP \o S_process \o SP
            \o S_criteria \o SP \o S_taboo,
         S_persona \o SP \o LP \o S_beliefs \o <<32, 120, 41>> \o SP \o S_arsenal
            \o SP \o S_process \o SP \o S_criteria \o SP \o S_taboo,
         S_persona \o SP \o LP \o S_beliefs \o SP \o Fill(24) \o RP \o SP
            \o S_arsenal \o SP \o S_process \o SP \o S_criteria \o SP \o S_taboo >>,
      \* 7: '' | '第一步第二步' | '第一步 第二步 第十一步\n'
      << <<>>,
         <<31532, 19968, 27493, 31532, 20108, 27493>>,
         <<31532, 19968, 27493, 32, 31532, 20108, 27493, 32,
           31532, 21313, 19968, 27493, 10>> >>,
      \* 8: '' | 'TODO' | '示例 ...' | '例如'
      << <<>>,
         S_todo,
         S_shili \o SP \o S_dots,
         S_liru >>,
      \* 9: '' | '使用指南' | 'start'
      << <<>>, S_guide, S_start >>,
      \* 10: '' | 'x' * 500 | 'x' * 1000
      << <<>>, Fill(500), Fill(1000) >>,
      \* 11: '' | ')' | '(' | '(' * 12
      << <<>>, RP, LP, [k \in 1..12 |-> 40] >>
    >>

RECURSIVE Concat(_)
Concat(seqs) == IF seqs = <<>> THEN <<>> ELSE Head(seqs) \o Concat(Tail(seqs))

Build(v) == Concat([k \in 1..Len(Slots) |-> Slots[k][v[k]]])

\* the empty document, and a document with every section of the rubric
EmptyChoice == [k \in 1..Len(Slots) |-> 1]
FullChoice == <<3, 4, 3, 4, 3, 4, 3, 4, 3, 3, 1>>

\* the choices that differ from base in the slots of T
Variants(base, T) ==
    {[k \in 1..Len(Slots) |-> IF k \in T THEN f[k] ELSE base[k]] :
        f \in {g \in [T -> 1..4] : \A k \in T : g[k] <= Len(Slots[k])}}

SlotDocs ==
    {Build(v) : v \in UNION {Variants(base, T) :
        base \in {EmptyChoice, FullChoice},
        T \in {U \in SUBSET (1..Len(Slots)) : Cardinality(U) <= MaxVary}}}

\* every string of at most MaxLen characters over '(' ')' ';' '\n' '法'
RECURSIVE Strings(_)
Strings(n) ==
    IF n = 0 THEN {<<>>}
    ELSE Strings(n - 1) \cup
         {Append(t, c) : t \in {u \in Strings(n - 1) : Len(u) = n - 1},
                         c \in {40, 41, 59, 10, 27861}}

\* documents at the two length thresholds
EdgeDocs == {Fill(499), Fill(500), Fill(999), Fill(1000)}

\* documents whose section names stand outside the '(name ...)' form
SparseDocs ==
    {\* '目标'
     S_goal,
     \* '目标 x(思维模型 x) 核心信念'
     S_goal \o <<32, 120>> \o LP \o S_models \o <<32, 120>> \o RP \o SP \o S_beliefs,
     \* '目标)(目标 ' 16 x ')'
     S_goal \o RP \o LP \o S_goal \o SP \o Fill(16) \o RP,
     \* '(defun\tf\n()核心信念)'
     LP \o S_defun \o <<9, 102, 10, 40, 41>> \o S_beliefs \o RP,
     \* '目标)核心信念)思维模型)' '(' * 13
     S_goal \o RP \o S_beliefs \o RP \o S_models \o RP \o [k \in 1..13 |-> 40]}

Docs == SlotDocs \cup Strings(MaxLen) \cup EdgeDocs \cup SparseDocs

Files == {NoFile, BadFile} \cup {TextFile(d) : d \in Docs}

(***************************************************************************)
(* main: the batch driver                                                  *)
(***************************************************************************)

MaxFiles == 2
MaxChanges == 1
MaxCalls == 3

\* two documents of the slot family, scored 70 (grade C) and 90 (grade A)
Doc70 == Build(<<3, 4, 1, 2, 2, 1, 3, 4, 2, 1, 1>>)
Doc90 == Build(<<1, 4, 3, 4, 2, 2, 3, 4, 2, 2, 1>>)

BatchFiles == {NoFile, TextFile(Doc70), TextFile(Doc90)}

\* a variant of the summary condition that ignores the rendering
show_summary_any_rendering(a) == Len(a.files) > 1

\* len(args.files) > 1 and not args.json
show_summary(a) == Len(a.files) > 1 /\ ~a.json

RECURSIVE SumScores(_)
SumScores(reports) ==
    IF reports = <<>> THEN 0 ELSE Head(reports).score + SumScores(Tail(reports))

\* f"{avg_score:.1f}" for avg_score = total / n, in tenths: the nearest
\* tenth, a tie going to the even one (a tie needs n = 4 among n <= 4, and
\* then the double is exactly x.25 or x.75)
MeanTenths(total, n) ==
    LET q == (10 * total) \div n
        r == (10 * total) % n
    IN  IF 2 * r < n THEN q
        ELSE IF 2 * r > n THEN q + 1
        ELSE IF q % 2 = 0 THEN q ELSE q + 1

\* the lines printed for all_reports: count, mean, max, min and, for each
\* grade that occurs, its count, in the order A B C D F
summarize(reports) ==
    LET scores == {reports[k].score : k \in 1..Len(reports)}
        grade_dist(g) == Cardinality({k \in 1..Len(reports) : reports[k].grade = g})
    IN  [count |-> Len(reports),
         mean |-> MeanTenths(SumScores(reports), Len(reports)),
         max |-> CHOOSE x \in scores : \A y \in scores : y <= x,
         min |-> CHOOSE x \in scores : \A y \in scores : x <= y,
         grades |-> SelectSeq(
             [k \in 1..5 |-> <<(<<"A", "B", "C", "D", "F">>)[k],
                               grade_dist((<<"A", "B", "C", "D", "F">>)[k])>>],
             LAMBDA e : e[2] > 0)]

(***************************************************************************)
(* State                                                                   *)
(***************************************************************************)

VARIABLES
    file,          \* one call: the path's state handed to check_file
    outcome,       \* one call: the outcome of the call
    phase,         \* one call: "input" before the call, "returned" after it
    checker,       \* the QualityChecker instance (its rubric lists)
    fs,            \* main: the file system, path -> state of the path
    args,          \* main: the parsed command line (files, json, min_score)
    pc,            \* main: "loop", "summary", "done" or "aborted"
    i,             \* main: index of the next file of the for loop
    results,       \* main: the list results
    printed,       \* main: stdout, the reports printed by print_report
    json_printed,  \* main: stdout, the JSON document printed
    all_reports,   \* main: the list all_reports as far as it is built
    summary,       \* main: stdout, the summary printed
    reads,         \* main: what _read_file found at each call of the loop
    changes,       \* main: changes made to the files by others so far
    instances,     \* calls: the checker instances of a caller
    log,           \* calls: the calls made so far and their reports
    scores,        \* suggestions: the five arguments of _generate_suggestions
    suggestions    \* suggestions: the list returned, in a one-element tuple

callVars == <<file, outcome, phase>>
mainVars == <<fs, args, pc, i, results, printed, json_printed, all_reports,
              summary, reads, changes>>
libVars == <<instances, log>>
sugVars == <<scores, suggestions>>
vars == <<file, outcome, phase, checker, fs, args, pc, i, results, printed,
          json_printed, all_reports, summary, reads, changes, instances, log,
          scores, suggestions>>

NoOutcome == [raised |-> "", report |-> failure_report(""), self |-> NewChecker]

NoCall == file = NoFile /\ outcome = NoOutcome /\ phase = "idle"

NoMain ==
    /\ fs = <<>>
    /\ args = [files |-> <<>>, json |-> FALSE, min_score |-> 0]
    /\ pc = "idle"
    /\ i = 0
    /\ results = <<>>
    /\ printed = <<>>
    /\ json_printed = <<>>
    /\ all_reports = <<>>
    /\ summary = <<>>
    /\ reads = <<>>
    /\ changes = 0

NoLib == instances = <<>> /\ log = <<>>

NoSug == scores = <<>> /\ suggestions = <<>>

(***************************************************************************)
(* SpecScore: one call of check_file on any document                       *)
(***************************************************************************)

InitScore ==
    /\ file \in Files
    /\ checker = NewChecker
    /\ outcome = NoOutcome
    /\ phase = "input"
    /\ NoMain
    /\ NoLib
    /\ NoSug

CallCheckFile ==
    /\ phase = "input"
    /\ outcome' = check_file(checker, file)
    /\ checker' = outcome'.self
    /\ phase' = "returned"
    /\ UNCHANGED <<file, mainVars, libVars, sugVars>>

NextScore == CallCheckFile

SpecScore == InitScore /\ [][NextScore]_vars

(***************************************************************************)
(* Spec: a run of main                                                     *)
(***************************************************************************)

\* args.files names the paths 1..N; every assignment of states to them
Init ==
    /\ \E n \in 1..MaxFiles :
          /\ fs \in [1..n -> BatchFiles]
          /\ \E js \in BOOLEAN, ms \in {0, 60} :
                args = [files |-> [k \in 1..n |-> k], json |-> js, min_score |-> ms]
    /\ checker = NewChecker
    /\ pc = "loop"
    /\ i = 1
    /\ results = <<>>
    /\ printed = <<>>
    /\ json_printed = <<>>
    /\ all_reports = <<>>
    /\ summary = <<>>
    /\ reads = <<>>
    /\ changes = 0
    /\ NoCall
    /\ NoLib
    /\ NoSug

\* one iteration of 'for file_path in args.files'
LoopStep ==
    /\ pc = "loop"
    /\ i <= Len(args.files)
    /\ \E file_path \in {args.files[i]} :
       \E c \in {check_file(checker, fs[file_path])} :
       \E report \in {c.report} :
           IF c.raised # ""
           THEN /\ pc' = "aborted"
                /\ UNCHANGED <<checker, i, results, printed, reads>>
           ELSE /\ checker' = c.self
                /\ IF args.json
                   THEN /\ results' = Append(results,
                               [file |-> file_path,
                                score |-> report.score,
                                grade |-> report.grade,
                                metrics |-> report.metrics,
                                issues |-> report.issues,
                                suggestions |-> report.suggestions])
                        /\ UNCHANGED printed
                   ELSE /\ printed' = Append(printed,
                               [file |-> file_path,
                                report |-> report,
                                warning |-> report.score < args.min_score])
                        /\ UNCHANGED results
                /\ reads' = Append(reads, fs[file_path])
                /\ i' = i + 1
                /\ UNCHANGED pc
    /\ UNCHANGED <<fs, args, json_printed, all_reports, summary, changes,
                   callVars, libVars, sugVars>>

\* after the loop: the JSON output, and the decision to summarize
AfterLoop ==
    /\ pc = "loop"
    /\ i > Len(args.files)
    /\ json_printed' = IF args.json THEN <<results>> ELSE <<>>
    /\ pc' = IF show_summary(args) THEN "summary" ELSE "done"
    /\ UNCHANGED <<checker, fs, args, i, results, printed, all_reports, summary,
                   reads, changes, callVars, libVars, sugVars>>

\* one element of 'all_reports = [checker.check_file(f) for f in args.files]'
SummaryRead ==
    /\ pc = "summary"
    /\ Len(all_reports) < Len(args.files)
    /\ \E c \in {check_file(checker, fs[args.files[Len(all_reports) + 1]])} :
           IF c.raised # ""
           THEN pc' = "aborted" /\ UNCHANGED <<checker, all_reports>>
           ELSE /\ checker' = c.self
                /\ all_reports' = Append(all_reports, c.report)
                /\ UNCHANGED pc
    /\ UNCHANGED <<fs, args, i, results, printed, json_printed, summary, reads,
                   changes, callVars, libVars, sugVars>>

\* the summary lines
SummaryPrint ==
    /\ pc = "summary"
    /\ Len(all_reports) = Len(args.files)
    /\ summary' = <<summarize(all_reports)>>
    /\ pc' = "done"
    /\ UNCHANGED <<checker, fs, args, i, results, printed, json_printed,
                   all_reports, reads, changes, callVars, libVars, sugVars>>

\* another process rewrites, creates or deletes one of the files while main
\* runs
FsChange ==
    /\ pc \in {"loop", "summary"}
    /\ changes < MaxChanges
    /\ \E path \in DOMAIN fs, f \in BatchFiles :
          /\ f # fs[path]
          /\ fs' = [fs EXCEPT ![path] = f]
    /\ changes' = changes + 1
    /\ UNCHANGED <<checker, args, pc, i, results, printed, json_printed,
                   all_reports, summary, reads, callVars, libVars, sugVars>>

Next == LoopStep \/ AfterLoop \/ SummaryRead \/ SummaryPrint \/ FsChange

Spec == Init /\ [][Next]_vars

(***************************************************************************)
(* SpecCalls: a caller that makes several calls on two instances           *)
(***************************************************************************)

InitCalls ==
    /\ instances = [k \in {1, 2} |-> NewChecker]
    /\ log = <<>>
    /\ checker = NewChecker
    /\ NoCall
    /\ NoMain
    /\ NoSug

Call ==
    /\ Len(log) < MaxCalls
    /\ \E k \in DOMAIN instances, f \in BatchFiles :
          \E c \in {check_file(instances[k], f)} :
              /\ log' = Append(log, [instance |-> k, file |-> f,
                                     raised |-> c.raised, report |-> c.report])
              /\ instances' = [instances EXCEPT ![k] = c.self]
    /\ UNCHANGED <<checker, callVars, mainVars, sugVars>>

NextCalls == Call

SpecCalls == InitCalls /\ [][NextCalls]_vars

(***************************************************************************)
(* SpecSuggest: one call of _generate_suggestions on any five scores       *)
(***************************************************************************)

\* total scores on both sides of the thresholds 70, 80 and 90, and
\* sub-scores on both sides of the threshold 80
TotalSamples == {0, 69, 70, 79, 80, 89, 90, 100}
SubSamples == {0, 75, 80, 100}

InitSuggest ==
    /\ scores \in TotalSamples \X SubSamples \X SubSamples \X SubSamples \X SubSamples
    /\ suggestions = <<>>
    /\ checker = NewChecker
    /\ NoCall
    /\ NoMain
    /\ NoLib

CallGenerateSuggestions ==
    /\ suggestions = <<>>
    /\ suggestions' = <<generate_suggestions(scores[1], scores[2], scores[3],
                                              scores[4], scores[5])>>
    /\ UNCHANGED <<scores, checker, callVars, mainVars, libVars>>

NextSuggest == CallGenerateSuggestions

SpecSuggest == InitSuggest /\ [][NextSuggest]_vars

(***************************************************************************)
(* Properties of one call (SpecScore)                                      *)
(***************************************************************************)

Returned == phase = "returned"
ReadOK == file.exists /\ file.readable
Report == outcome.report

\* the sub-scores as the report shows them: 结构完整性, Lisp语法, 内容质量, 完整度
Shown(k) == Report.metrics[k].value

HasIssue(kind) == \E k \in 1..Len(Report.issues) : Report.issues[k].kind = kind
IssuesOf(kind) == SelectSeq(Report.issues, LAMBDA x : x.kind = kind)

\* C1: for every document read successfully the total score is an integer
\* in 0..100 and is the floor of (25*structural + 25*syntax + 30*content +
\* 20*completeness) / 100, the operands being the four analyzers' clamped
\* sub-scores.
C1_TotalIsFloorOfWeightedSum ==
    (Returned /\ ReadOK) =>
        LET w == 25 * Shown(1) + 25 * Shown(2) + 30 * Shown(3) + 20 * Shown(4)
        IN  /\ Report.score \in 0..100
            /\ 100 * Report.score <= w
            /\ w < 100 * Report.score + 100
            /\ Shown(1) = check_structure(NewChecker, file.data)[1]
            /\ Shown(2) = check_syntax(file.data)[1]
            /\ Shown(3) = check_content_quality(file.data)[1]
            /\ Shown(4) = check_completeness(file.data)[1]

\* a call whose weighted sum is not a whole number, so that the floor matters
C1_Witness ==
    /\ Returned /\ ReadOK
    /\ (25 * Shown(1) + 25 * Shown(2) + 30 * Shown(3) + 20 * Shown(4)) % 100 = 75

\* the precondition of C2: all 3 required and 6 recommended markers, at
\* least 1000 characters, 2 thinking-model matches, 3 step matches, an
\* example word, and each completeness section at or above its minimum
RichDocument(content) ==
    /\ \A k \in 1..3 : Contains(NewChecker.required_sections[k], content)
    /\ \A k \in 1..6 : Contains(NewChecker.recommended_sections[k], content)
    /\ Len(content) >= 1000
    /\ count_models(content, 1) >= 2
    /\ count_steps(content) >= 3
    /\ (Contains(S_shili, content) \/ Contains(S_liru, content)
        \/ Contains(S_anli, content))
    /\ \A k \in 1..3 :
          /\ first_section_match(sections_to_check[k][1], content) # <<>>
          /\ Len(first_section_match(sections_to_check[k][1], content))
                >= sections_to_check[k][2]

\* syntax sub-score 100: balanced delimiters, a '(defun name ()' match and
\* a comment with a Chinese character
CleanSyntax(content) ==
    /\ CountChar(40, content) = CountChar(41, content)
    /\ defun_search(content)
    /\ comment_search(content)

\* C2 as stated: such a document always gets total >= 90 and grade A.
C2_Original ==
    (Returned /\ ReadOK /\ RichDocument(file.data)) =>
        (Report.score >= 90 /\ Report.grade = "A")

\* C2, amended: such a document gets total >= 90 and grade A when its
\* syntax sub-score is 100 as well (the syntax check takes up to 80 of the
\* 100 syntax points from a document that meets every other condition).
C2_RichAndCleanIsGradeA ==
    (Returned /\ ReadOK /\ RichDocument(file.data) /\ CleanSyntax(file.data)) =>
        (Report.score >= 90 /\ Report.grade = "A")

C2_Witness ==
    /\ Returned /\ ReadOK /\ RichDocument(file.data) /\ CleanSyntax(file.data)
    /\ Report.score < 100

\* C3: each of the four sub-scores is an integer in 0..100, never negative,
\* however many penalties of one analyzer apply together.
C3_SubScoresInRange ==
    (Returned /\ ReadOK) =>
        /\ check_structure(checker, file.data)[1] \in 0..100
        /\ check_syntax(file.data)[1] \in 0..100
        /\ check_content_quality(file.data)[1] \in 0..100
        /\ check_completeness(file.data)[1] \in 0..100

\* the structural penalties add up to more than 100: 3 required and 6
\* recommended markers missing
C3_Witness ==
    /\ Returned /\ ReadOK
    /\ Len(IssuesOf("missing_required")) = 3
    /\ IssuesOf("missing_recommended") # <<>>
    /\ IssuesOf("missing_recommended")[1].a = 6
    /\ Shown(1) = 0

GradeRank(g) ==
    CASE g = "F" -> 0 [] g = "D" -> 1 [] g = "C" -> 2 [] g = "B" -> 3 [] g = "A" -> 4

\* _calculate_grade never gives a lower grade to a higher score
GradeMonotonic ==
    \A a \in 0..100 : \A b \in a..100 :
        GradeRank(calculate_grade(a)) <= GradeRank(calculate_grade(b))

\* C4: in every report returned by check_file, of a read document or of a
\* failed read, the grade is A from 90, B from 80, C from 70, D from 60 and
\* F below; the step function is monotonic, 89 gives B and 90 gives A.
C4_GradeIsStepOfScore ==
    /\ Returned =>
         /\ (Report.score >= 90) = (Report.grade = "A")
         /\ (Report.score \in 80..89) = (Report.grade = "B")
         /\ (Report.score \in 70..79) = (Report.grade = "C")
         /\ (Report.score \in 60..69) = (Report.grade = "D")
         /\ (Report.score < 60) = (Report.grade = "F")
    /\ GradeMonotonic
    /\ calculate_grade(89) = "B"
    /\ calculate_grade(90) = "A"

\* a document scored exactly 90
C4_Witness == Returned /\ ReadOK /\ Report.score = 90 /\ Report.grade = "A"

\* C5: when the document cannot be obtained, check_file raises nothing and
\* returns score 0, grade F, no metrics, exactly one issue (the read
\* failure) and exactly two suggestions.
C5_FailedReadReport ==
    (Returned /\ ~ReadOK) =>
        /\ outcome.raised = ""
        /\ Report.score = 0
        /\ Report.grade = "F"
        /\ Report.metrics = <<>>
        /\ Len(Report.issues) = 1
        /\ Report.issues[1].kind = "read_failed"
        /\ Report.issues[1].detail # ""
        /\ Len(Report.suggestions) = 2

C5_Witness == Returned /\ ~file.exists /\ Report.score = 0

\* C10: the delimiter penalty of the syntax check is 0 when the numbers of
\* '(' and ')' are equal, and otherwise min(50, 5 * |opens - closes|) with
\* exactly one mismatch issue; one unmatched '(' costs exactly 5, and the
\* penalty never exceeds 50.
C10_DelimiterPenalty ==
    (Returned /\ ReadOK) =>
        LET opens == CountChar(40, file.data)
            closes == CountChar(41, file.data)
            penalty == 100 - Shown(2)
                       - (IF defun_search(file.data) THEN 0 ELSE 20)
                       - (IF comment_search(file.data) THEN 0 ELSE 10)
            mismatch == IssuesOf("paren_mismatch")
        IN  /\ opens = closes => (penalty = 0 /\ mismatch = <<>>)
            /\ opens # closes =>
                  /\ penalty = Min(50, 5 * Abs(opens - closes))
                  /\ Len(mismatch) = 1
                  /\ mismatch[1].a = opens /\ mismatch[1].b = closes
            /\ opens = closes + 1 => penalty = 5
            /\ penalty <= 50

\* more than ten unmatched delimiters: the cap of 50 applies
C10_Witness ==
    /\ Returned /\ ReadOK
    /\ CountChar(40, file.data) - CountChar(41, file.data) > 10
    /\ Shown(2) <= 50

\* C11: the empty document, read successfully, has the sub-scores
\* structural 0 (3 required and 6 recommended markers missing), syntax 70,
\* content 15 and completeness 90, total score 40 and grade F.
C11_EmptyDocument ==
    (Returned /\ ReadOK /\ file.data = <<>>) =>
        /\ Len(IssuesOf("missing_required")) = 3
        /\ IssuesOf("missing_recommended")[1].a = 6
        /\ Shown(1) = 0
        /\ Shown(2) = 70
        /\ Shown(3) = 15
        /\ Shown(4) = 90
        /\ Report.score = 40
        /\ Report.grade = "F"

\* the empty document scored: 4 structural, 2 syntax, 4 content issues and
\* 1 completeness issue
C11_Witness ==
    /\ Returned /\ ReadOK
    /\ Len(file.data) = 0
    /\ Len(Report.issues) = 11

\* the table of the completeness check as the claim C13 gives it
C13_Table == <<<<S_goal, 20>>, <<S_beliefs, 30>>, <<S_models, 50>>>>

\* C13: the completeness check takes 15 points and emits one
\* 'underdeveloped' issue for a marker of the table exactly when the marker
\* occurs and the text from its first occurrence to the next ')', both
\* included, is shorter than the minimum; an absent marker and a marker
\* with no ')' after it cost nothing; 10 more points go exactly when neither
\* '使用指南' nor 'start' occurs; so completeness = 100 - 15*k - 10*u.
C13_CompletenessPenalties ==
    (Returned /\ ReadOK) =>
        LET content == file.data
            n == Len(content)
            First(m) == FirstIdx(1, n, LAMBDA j : OccursAt(m, content, j))
            Close(m) == FirstIdx(First(m) + Len(m), n, LAMBDA j : content[j] = 41)
            Under(k) == /\ First(C13_Table[k][1]) <= n
                        /\ Close(C13_Table[k][1]) <= n
                        /\ Close(C13_Table[k][1]) - First(C13_Table[k][1]) + 1
                              < C13_Table[k][2]
            flagged == {k \in 1..3 : Under(k)}
            u == IF ~Contains(S_guide, content) /\ ~Contains(S_start, content)
                 THEN 1 ELSE 0
            issues == IssuesOf("too_simple")
        IN  /\ Shown(4) = 100 - 15 * Cardinality(flagged) - 10 * u
            /\ Len(issues) = Cardinality(flagged)
            /\ \A k \in 1..3 :
                  (k \in flagged) <=>
                     (\E e \in 1..Len(issues) : issues[e].section = C13_Table[k][1])
            /\ Len(IssuesOf("no_guide")) = u

\* a document that ends with '核心信念' (present, no ')' after it: no cost)
\* and is flagged for the two other markers, without a usage guide
C13_Witness ==
    /\ Returned /\ ReadOK
    /\ Len(file.data) >= 4
    /\ SubSeq(file.data, Len(file.data) - 3, Len(file.data)) = S_beliefs
    /\ Len(IssuesOf("too_simple")) = 2
    /\ Shown(4) = 60

\* C14: a report with score 0 comes only from a failed read: for every
\* document read the syntax sub-score is at least 20 and the completeness
\* sub-score at least 45, the total score is at least 14 and the metrics
\* are not empty.
C14_ZeroOnlyOnReadFailure ==
    /\ (Returned /\ ReadOK) =>
          /\ Shown(2) >= 20
          /\ Shown(4) >= 45
          /\ Report.score >= 14
          /\ Report.metrics # <<>>
    /\ (Returned /\ Report.score = 0) => (~ReadOK /\ Report.metrics = <<>>)

\* a document with the lowest syntax and completeness sub-scores
C14_Witness ==
    /\ Returned /\ ReadOK
    /\ Shown(2) = 20
    /\ Shown(4) = 45

\* C15: in one report, (a) '目标' or '思维模型' is never both reported
\* missing by the structural check and underdeveloped by the completeness
\* check; (b) when '核心信念' is reported underdeveloped, the count of
\* missing recommended sections is the count of the five others that are
\* missing; (c) when the text matches '(defun <name> ()', 'defun' is not
\* reported missing and the structural score carries no 30 points for it.
C15_AnalyzersAgree ==
    (Returned /\ ReadOK) =>
        LET content == file.data
            req == IssuesOf("missing_required")
            rec == IssuesOf("missing_recommended")
            simple == IssuesOf("too_simple")
            Missing(X) == \E e \in 1..Len(req) : req[e].section = X
            Simple(X) == \E e \in 1..Len(simple) : simple[e].section = X
            counted == IF rec = <<>> THEN 0 ELSE rec[1].a
            others == {S_persona, S_arsenal, S_process, S_criteria, S_taboo}
            othersMissing == Cardinality({X \in others : ~Contains(X, content)})
            goalsMissing == Cardinality({X \in {S_goal, S_models} :
                                            ~Contains(X, content)})
        IN  /\ \A X \in {S_goal, S_models} : ~(Missing(X) /\ Simple(X))
            /\ Simple(S_beliefs) => (counted = othersMissing /\ counted <= 5)
            /\ defun_search(content) =>
                  /\ ~Missing(S_defun)
                  /\ Shown(1) = Max(0, 100 - 30 * goalsMissing - 5 * counted)

\* a document that matches '(defun <name> ()', is flagged for '核心信念'
\* and lacks the five other recommended sections and two required ones
C15_Witness ==
    /\ Returned /\ ReadOK
    /\ defun_search(file.data)
    /\ \E e \in 1..Len(Report.issues) :
          Report.issues[e].kind = "too_simple" /\ Report.issues[e].section = S_beliefs
    /\ IssuesOf("missing_recommended") # <<>>
    /\ IssuesOf("missing_recommended")[1].a = 5
    /\ Len(IssuesOf("missing_required")) = 2

(***************************************************************************)
(* Properties of a run of main (Spec)                                      *)
(***************************************************************************)

\* the reports the run has put out so far, one per loop iteration: printed
\* by print_report, or collected in results for the JSON rendering
Produced ==
    IF args.json
    THEN [k \in 1..Len(results) |->
            [file |-> results[k].file,
             report |-> [score |-> results[k].score,
                         grade |-> results[k].grade,
                         metrics |-> results[k].metrics,
                         issues |-> results[k].issues,
                         suggestions |-> results[k].suggestions]]]
    ELSE [k \in 1..Len(printed) |->
            [file |-> printed[k].file, report |-> printed[k].report]]

\* C6: a batch run over N documents, any of them unreadable, never aborts:
\* the documents get one report each, in input order, and every document,
\* also one that follows an unreadable one, is scored as if evaluated alone.
C6_BatchNeverAborts ==
    /\ pc # "aborted"
    /\ pc \in {"loop", "summary", "done"} =>
          /\ Len(Produced) = i - 1
          /\ Len(reads) = i - 1
          /\ \A k \in 1..Len(Produced) : Produced[k].file = args.files[k]
    /\ pc \in {"summary", "done"} => Len(Produced) = Len(args.files)
    /\ pc = "done" =>
          \A k \in 1..Len(Produced) :
             Produced[k].report = check_file(NewChecker, reads[k]).report

\* a finished run whose first document was unreadable and whose second
\* document was read and scored
C6_Witness ==
    /\ pc = "done"
    /\ Len(args.files) >= 2
    /\ ~reads[1].exists
    /\ reads[2].exists
    /\ Produced[1].report.score = 0
    /\ Produced[2].report.score >= 70

GradeCount(reports, g) == Cardinality({k \in 1..Len(reports) : reports[k].grade = g})

RECURSIVE SumCounts(_)
SumCounts(pairs) == IF pairs = <<>> THEN 0 ELSE Head(pairs)[2] + SumCounts(Tail(pairs))

\* C7: in a batch run with N > 1 documents the summary's count, mean, max,
\* min and grade histogram are those of the N reports the run produced,
\* also when a document changes or becomes unreadable during the run.
C7_SummaryOfProducedReports ==
    (pc = "done" /\ summary # <<>>) =>
        LET rs == [k \in 1..Len(Produced) |-> Produced[k].report]
            n == Len(rs)
            sm == summary[1]
        IN  /\ sm.count = n
            /\ 2 * Abs(sm.mean * n - 10 * SumScores(rs)) <= n
            /\ \E k \in 1..n : rs[k].score = sm.max
            /\ \A k \in 1..n : rs[k].score <= sm.max
            /\ \E k \in 1..n : rs[k].score = sm.min
            /\ \A k \in 1..n : rs[k].score >= sm.min
            /\ \A e \in 1..Len(sm.grades) :
                  sm.grades[e][2] = GradeCount(rs, sm.grades[e][1])
            /\ SumCounts(sm.grades) = n

C9_SameDocumentSameReport ==
    /\ \A a \in 1..Len(log) : \A b \in 1..Len(log) :
          log[a].file = log[b].file =>
             (log[a].report = log[b].report /\ log[a].raised = log[b].raised)
    /\ \A k \in DOMAIN instances : instances[k] = NewChecker

\* one document scored by an instance before and after that instance
\* scored another document
C9_Witness ==
    /\ Len(log) >= 3
    /\ log[1].file = log[3].file
    /\ log[1].file.exists
    /\ log[2].file.exists
    /\ log[2].file # log[1].file
    /\ log[1].instance = log[2].instance
    /\ log[2].instance = log[3].instance
    /\ log[1].report.score > 0

(***************************************************************************)
(* Properties of _generate_suggestions (SpecSuggest)                       *)
(***************************************************************************)

\* C12: for any five scores the list of suggestions starts with exactly one
\* band suggestion chosen by the total (from 90, 80..89, below 80); then
\* come, in this order, the structural suggestion iff structural < 80, the
\* syntax suggestion iff syntax < 80, the two content suggestions iff
\* content < 80, the completeness suggestion iff completeness < 80 and the
\* re-run suggestion iff total < 70, whatever the band; the list has 1 to
\* 7 entries.
C12_SuggestionOrder ==
    suggestions # <<>> =>
        LET s == suggestions[1]
            total == scores[1]
            applies(label) ==
                CASE label = "add_structure" -> scores[2] < 80
                  [] label = "fix_syntax" -> scores[3] < 80
                  [] label = "enrich_content" -> scores[4] < 80
                  [] label = "add_examples" -> scores[4] < 80
                  [] label = "expand_sections" -> scores[5] < 80
                  [] label = "rerun_extraction" -> total < 70
        IN  /\ Len(s) \in 1..7
            /\ s[1] = (IF total >= 90 THEN "excellent"
                       ELSE IF total >= 80 THEN "good" ELSE "needs_improvement")
            /\ Tail(s) = SelectSeq(<<"add_structure", "fix_syntax", "enrich_content",
                                     "add_examples", "expand_sections",
                                     "rerun_extraction">>, applies)

\* the longest list: a total below 70 with every sub-score below 80
C12_Witness ==
    /\ suggestions # <<>>
    /\ scores[1] < 70
    /\ \A k \in 2..5 : scores[k] < 80
    /\ Len(suggestions[1]) = 7

====
